---- MODULE Spec2Model ----
(***************************************************************************)
(* Model of build_db.py: the two-pass builder of the etymology graph.      *)
(*                                                                         *)
(* Pass 1 (insert_entries_from_jsonl) upserts one row of the entries table *)
(* per corpus line that carries the keys word and lang_code; pass 2        *)
(* (insert_edges_from_jsonl) re-reads the corpus and inserts one row of    *)
(* the edges table per relation reference that resolve_target_node can     *)
(* resolve against the entries table.                                      *)
(*                                                                         *)
(* Values.  JSON null, Python None and SQL NULL are Null for text and      *)
(* NoNum for etymology_number; a key that is not in a dict is Absent.      *)
(* A list-valued field is a record [kind, items] with kind "absent" or     *)
(* "list"; a stored JSON column is a record [kind, text] with kind "null"  *)
(* or "text".                                                              *)
(***************************************************************************)
EXTENDS Integers, Sequences, FiniteSets, TLC

VARIABLES
    corpus,         \* the lines of the .jsonl.gz file, read once per pass
    pc,             \* "insert_entries", "insert_edges", "done", "aborted", "resolve"
    line_no,        \* index of the next line of the running pass
    entries,        \* entries table as seen by the connection of pass 1
    db_entries,     \* entries table as committed to the database file
    count,          \* pass 1: count
    scan,           \* order in which the database returns the rows of entries
    spec_no,        \* pass 2: index into RELATION_SPECS, 0 between lines
    rel_no,         \* pass 2: index into iter_relation_items(entry, field)
    edges,          \* edges table (in id order) as seen by the connection of pass 2
    db_edges,       \* edges table as committed to the database file
    count_edges,    \* pass 2: count_edges
    count_entries,  \* pass 2: count_entries
    q               \* the last call of resolve_target_node: arguments, rows, result

vars == <<corpus, pc, line_no, entries, db_entries, count, scan, spec_no,
          rel_no, edges, db_edges, count_edges, count_entries, q>>

----------------------------------------------------------------------------
(* Bounds of the model *)

MaxCorpus == 2      \* lines in the corpus of a build
MaxRows == 3        \* lines in the corpus behind the table of a resolve call

----------------------------------------------------------------------------
(* Values *)

Null == "<null>"
Absent == "<absent>"
NoNum == 0 - 1

EntriesPerCommit == 5000
EdgeEntriesPerCommit == 2000

\* Python truthiness of an optional string: `not v`
Falsy(v) == v \in {Null, Absent, ""}

\* dict.get(key) for a text value
Get(v) == IF v = Absent THEN Null ELSE v

\* `v or ""`
OrEmpty(v) == IF Falsy(v) THEN "" ELSE v

AbsentList == [kind |-> "absent", items |-> <<>>]
List(items) == [kind |-> "list", items |-> items]

\* `entry.get(field) or []`
ItemsOf(v) == IF v.kind = "list" THEN v.items ELSE <<>>

\* json.dumps(value) if value is not None else None
json_dumps(v) ==
    IF v.kind = "list" THEN [kind |-> "text", text |-> v.items]
    ELSE [kind |-> "null", text |-> <<>>]

----------------------------------------------------------------------------
(* Corpus lines *)

\* an item of a relation list: a dict or a bare string
Bare(w) == [isdict |-> FALSE, word |-> w, lang_code |-> Absent, lang |-> Absent]
Dict(w, lc, l) == [isdict |-> TRUE, word |-> w, lang_code |-> lc, lang |-> l]

EmptyObject ==
    [word |-> Absent, lang |-> Absent, lang_code |-> Absent, pos |-> Absent,
     etymology_number |-> NoNum, etymology_text |-> Absent,
     etymology_templates |-> AbsentList, derived |-> AbsentList,
     descendants |-> AbsentList, alt_of |-> AbsentList, form_of |-> AbsentList,
     categories |-> AbsentList, redirects |-> AbsentList,
     literal_meaning |-> Absent, wikidata |-> Absent]

Blank == [kind |-> "blank", obj |-> EmptyObject]
Malformed == [kind |-> "malformed", obj |-> EmptyObject]
Object(o) == [kind |-> "object", obj |-> o]

Word(lc, w, p, n) ==
    [EmptyObject EXCEPT !.lang_code = lc, !.word = w, !.pos = p,
                        !.etymology_number = n]

\* the lines a build corpus is drawn from
BuildLines ==
    { Blank,
      Malformed,
      Object([EmptyObject EXCEPT !.lang_code = "en"]),
      Object([EmptyObject EXCEPT !.lang_code = "en", !.word = Null]),
      Object([Word("en", "foo", "noun", 1) EXCEPT
                 !.alt_of = List(<<Bare("foo")>>)]),
      Object([Word("en", "foo", "noun", NoNum) EXCEPT
                 !.lang = "English", !.derived = List(<<>>)]),
      Object([Word("en", "foo", "noun", 0) EXCEPT
                 !.redirects = List(<<Dict("foo", Absent, "en")>>)]),
      Object(Word("en", "foo", "verb", 0)),
      Object([Word("en", "bar", "verb", NoNum) EXCEPT
                 !.form_of = List(<<Dict("foo", Absent, Absent),
                                    Dict("", "en", Absent)>>),
                 !.derived = List(<<Bare("foo"), Bare("foo"),
                                    Dict("qux", "en", Absent)>>),
                 !.descendants = List(<<Bare("foo"),
                                        Dict("foo", Null, "en")>>)]),
      Object([Word("", "foo", Absent, NoNum) EXCEPT
                 !.derived = List(<<Bare("foo"), Bare("")>>)]),
      Object([Word("a", "b:c", Absent, NoNum) EXCEPT !.lang = "A"]),
      Object(Word("a:b", "c", Absent, NoNum)) }

\* the lines behind the table of a resolve call
ResolveLines ==
    { Object(Word("en", "foo", "noun", 1)),
      Object(Word("en", "foo", "noun", 0)),
      Object(Word("en", "foo", "noun", NoNum)),
      Object(Word("en", "foo", "verb", 0)),
      Object(Word("en", "foo", "adj", NoNum)),
      Object(Word("en", "foo", Absent, 5)),
      Object(Word("", "foo", "noun", 0)) }

SeqsUpTo(S, n) == UNION { [1..m -> S] : m \in 0..n }

----------------------------------------------------------------------------
(* Node identity and normalization *)

make_node_id(entry) ==
    LET lang_code == OrEmpty(Get(entry.lang_code))
        word == OrEmpty(Get(entry.word))
        pos == OrEmpty(Get(entry.pos))
        ety_num == IF entry.etymology_number = NoNum THEN 0
                   ELSE entry.etymology_number
    IN  lang_code \o ":" \o word \o ":" \o pos \o ":" \o ToString(ety_num)

normalize_entry(entry) ==
    [node_id |-> make_node_id(entry),
     word |-> Get(entry.word),
     lang |-> Get(entry.lang),
     lang_code |-> Get(entry.lang_code),
     pos |-> Get(entry.pos),
     etymology_number |-> entry.etymology_number,
     etymology_text |-> Get(entry.etymology_text),
     etymology_templates |-> json_dumps(entry.etymology_templates),
     derived |-> json_dumps(entry.derived),
     descendants |-> json_dumps(entry.descendants),
     alt_of |-> json_dumps(entry.alt_of),
     form_of |-> json_dumps(entry.form_of),
     categories |-> json_dumps(entry.categories),
     redirects |-> json_dumps(entry.redirects),
     literal_meaning |-> Get(entry.literal_meaning),
     wikidata |-> Get(entry.wikidata)]

\* the line is dropped by the loop head of either pass: blank, not JSON,
\* or without the key word or the key lang_code
SkipLine(line) ==
    \/ line.kind # "object"
    \/ line.obj.word = Absent
    \/ line.obj.lang_code = Absent

\* word TEXT NOT NULL, lang_code TEXT NOT NULL
NotNullFails(row) == row.word = Null \/ row.lang_code = Null

\* a plausible slip: INSERT OR IGNORE keeps the row that is already there
InsertOrIgnore(table, row) ==
    IF \E r \in table : r.node_id = row.node_id THEN table
    ELSE table \cup {row}

\* INSERT OR REPLACE INTO entries: node_id is the primary key
InsertOrReplace(table, row) ==
    {r \in table : r.node_id # row.node_id} \cup {row}

\* the orders in which the database may return the rows of a table
ScanOrders(table) ==
    {s \in [1..Cardinality(table) -> table] :
        \A a, b \in 1..Cardinality(table) : a # b => s[a] # s[b]}

\* a plausible slip: the commit is left out
CommitNothing(view, db) == db

\* conn.commit(): the pending writes of the connection reach the file
Commit(view, db) == view

NoQuery ==
    [called |-> FALSE, lang_code |-> Null, word |-> Null, current_pos |-> Null,
     rows |-> <<>>, result |-> Null]

----------------------------------------------------------------------------
(* Pass 1 *)

InsertEntriesLine ==
    /\ pc = "insert_entries"
    /\ line_no <= Len(corpus)
    /\ LET line == corpus[line_no]
           norm == normalize_entry(line.obj)
       IN  IF SkipLine(line)
           THEN /\ line_no' = line_no + 1
                /\ UNCHANGED <<pc, entries, db_entries, count>>
           ELSE IF NotNullFails(norm)
           THEN /\ pc' = "aborted"
                /\ UNCHANGED <<line_no, entries, db_entries, count>>
           ELSE /\ entries' = InsertOrReplace(entries, norm)
                /\ count' = count + 1
                /\ db_entries' = IF count' % EntriesPerCommit = 0
                                 THEN Commit(entries', db_entries)
                                 ELSE db_entries
                /\ line_no' = line_no + 1
                /\ pc' = pc
    /\ UNCHANGED <<corpus, scan, spec_no, rel_no, edges, db_edges,
                   count_edges, count_entries, q>>

PhaseOneEnd ==
    /\ pc = "insert_entries"
    /\ line_no > Len(corpus)
    /\ db_entries' = Commit(entries, db_entries)
    /\ scan' \in ScanOrders(db_entries')
    /\ pc' = "insert_edges"
    /\ line_no' = 1
    /\ UNCHANGED <<corpus, entries, count, spec_no, rel_no, edges, db_edges,
                   count_edges, count_entries, q>>

----------------------------------------------------------------------------
(* Edge helpers *)

\* a plausible slip: None sorts before every number
KeyLessNoneFirst(a, b) ==
    IF b.etymology_number = NoNum THEN FALSE
    ELSE IF a.etymology_number = NoNum THEN TRUE
    ELSE a.etymology_number < b.etymology_number

\* sort key (r[2] is None, r[2]) of pick_best
KeyLess(a, b) ==
    IF a.etymology_number = NoNum THEN FALSE
    ELSE IF b.etymology_number = NoNum THEN TRUE
    ELSE a.etymology_number < b.etymology_number

\* list.sort is stable: a row goes behind the rows it does not precede
InsertSorted(sorted, row) ==
    LET before == {j \in 1..Len(sorted) : KeyLess(row, sorted[j])}
        at == IF before = {} THEN Len(sorted) + 1
              ELSE CHOOSE j \in before : \A k \in before : j <= k
    IN  SubSeq(sorted, 1, at - 1) \o <<row>> \o SubSeq(sorted, at, Len(sorted))

RECURSIVE SortByEty(_)
SortByEty(rows) ==
    IF Len(rows) = 0 THEN <<>>
    ELSE InsertSorted(SortByEty(SubSeq(rows, 1, Len(rows) - 1)), rows[Len(rows)])

IsPosMatch(row, current_pos) == OrEmpty(row.pos) = current_pos

\* a plausible slip: only the number 0 counts as the primary sense
IsEty0NotNone(row) == row.etymology_number = 0

IsEty0(row) == row.etymology_number = NoNum \/ row.etymology_number = 0

pick_best(candidates, current_pos) ==
    LET pos_matches == SelectSeq(candidates, LAMBDA row : IsPosMatch(row, current_pos))
        ety0 == SelectSeq(candidates, IsEty0)
    IN  IF Len(candidates) = 0 THEN Null
        ELSE IF ~Falsy(current_pos) /\ Len(pos_matches) > 0
        THEN SortByEty(pos_matches)[1].node_id
        ELSE IF Len(ety0) > 0 THEN ety0[1].node_id
        ELSE candidates[1].node_id

\* a plausible slip: the query matches the word in any language
SelectRowsAnyLang(cur, lang_code, word) ==
    LET hits == SelectSeq(cur, LAMBDA r : r.word = word)
    IN  [j \in 1..Len(hits) |->
            [node_id |-> hits[j].node_id, pos |-> hits[j].pos,
             etymology_number |-> hits[j].etymology_number]]

\* SELECT node_id, pos, etymology_number FROM entries
\* WHERE lang_code = ? AND word = ?, in the order the database returns rows
SelectRows(cur, lang_code, word) ==
    LET hits == SelectSeq(cur, LAMBDA r : r.lang_code = lang_code /\ r.word = word)
    IN  [j \in 1..Len(hits) |->
            [node_id |-> hits[j].node_id, pos |-> hits[j].pos,
             etymology_number |-> hits[j].etymology_number]]

RowsFor(cur, lang_code, word) ==
    IF Falsy(lang_code) \/ Falsy(word) THEN <<>>
    ELSE SelectRows(cur, lang_code, word)

\* a plausible slip: the guard on empty arguments is left out
ResolveNoGuard(cur, lang_code, word, current_pos) ==
    LET rows == SelectRows(cur, lang_code, word)
    IN  IF Len(rows) = 0 THEN Null ELSE pick_best(rows, current_pos)

resolve_target_node(cur, lang_code, word, current_pos) ==
    IF Falsy(lang_code) \/ Falsy(word) THEN Null
    ELSE LET rows == SelectRows(cur, lang_code, word)
         IN  IF Len(rows) = 0 THEN Null ELSE pick_best(rows, current_pos)

\* the record of a call of resolve_target_node
Call(cur, lang_code, word, current_pos) ==
    [called |-> TRUE, lang_code |-> lang_code, word |-> word,
     current_pos |-> current_pos,
     rows |-> RowsFor(cur, lang_code, word),
     result |-> resolve_target_node(cur, lang_code, word, current_pos)]

\* what iter_relation_items yields for one item of the list: nothing or one
\* {"word", "lang_code"} dict
YieldOf(item) ==
    IF item.isdict
    THEN IF Falsy(item.word) THEN <<>>
         ELSE <<[word |-> item.word,
                 lang_code |-> IF Falsy(item.lang_code) THEN Get(item.lang)
                               ELSE item.lang_code]>>
    ELSE <<[word |-> item.word, lang_code |-> Null]>>

RECURSIVE YieldAll(_)
YieldAll(items) ==
    IF Len(items) = 0 THEN <<>>
    ELSE YieldOf(Head(items)) \o YieldAll(Tail(items))

iter_relation_items(entry, field) == YieldAll(ItemsOf(entry[field]))

\* a plausible slip: descendants inherit the language of the entry too
RelationSpecsAllInherit ==
    [s \in 1..5 |->
        [field |-> <<"alt_of", "form_of", "redirects", "derived", "descendants">>[s],
         relation_type |-> <<"alt_of", "form_of", "redirect", "derived", "descendant">>[s],
         use_pos |-> s <= 3, fallback_entry_lang |-> TRUE]]

RELATION_SPECS ==
    << [field |-> "alt_of", relation_type |-> "alt_of",
        use_pos |-> TRUE, fallback_entry_lang |-> TRUE],
       [field |-> "form_of", relation_type |-> "form_of",
        use_pos |-> TRUE, fallback_entry_lang |-> TRUE],
       [field |-> "redirects", relation_type |-> "redirect",
        use_pos |-> TRUE, fallback_entry_lang |-> TRUE],
       [field |-> "derived", relation_type |-> "derived",
        use_pos |-> FALSE, fallback_entry_lang |-> TRUE],
       [field |-> "descendants", relation_type |-> "descendant",
        use_pos |-> FALSE, fallback_entry_lang |-> FALSE] >>

\* target_lang of the loop body of insert_edges_from_jsonl
TargetLang(entry, spec, rel) ==
    IF Falsy(rel.lang_code) /\ spec.fallback_entry_lang
    THEN Get(entry.lang_code) ELSE rel.lang_code

\* pos_for_match of the loop body of insert_edges_from_jsonl
PosForMatch(entry, spec) == IF spec.use_pos THEN Get(entry.pos) ELSE Null

\* a plausible slip: an edge that is already in the table is not repeated
InsertEdgeOnce(table, edge) ==
    IF \E j \in 1..Len(table) : table[j] = edge THEN table
    ELSE Append(table, edge)

\* INSERT INTO edges (src_id, dst_id, relation_type) VALUES (?, ?, ?)
InsertEdge(table, edge) == Append(table, edge)

Edge(src_id, dst_id, relation_type) ==
    [src_id |-> src_id, dst_id |-> dst_id, relation_type |-> relation_type,
     raw_payload |-> Null]

----------------------------------------------------------------------------
(* Pass 2 *)

\* loop head: the next line is skipped or becomes the current entry
EdgesLine ==
    /\ pc = "insert_edges"
    /\ spec_no = 0
    /\ line_no <= Len(corpus)
    /\ IF SkipLine(corpus[line_no])
       THEN /\ line_no' = line_no + 1
            /\ UNCHANGED <<spec_no, rel_no, count_entries>>
       ELSE /\ count_entries' = count_entries + 1
            /\ spec_no' = 1
            /\ rel_no' = 1
            /\ UNCHANGED line_no
    /\ UNCHANGED <<corpus, pc, entries, db_entries, count, scan, edges,
                   db_edges, count_edges, q>>

\* one iteration of `for rel in iter_relation_items(entry, field)`
EdgesRel ==
    /\ pc = "insert_edges"
    /\ spec_no \in 1..Len(RELATION_SPECS)
    /\ LET entry == corpus[line_no].obj
           spec == RELATION_SPECS[spec_no]
           rels == iter_relation_items(entry, spec.field)
       IN  /\ rel_no <= Len(rels)
           /\ LET rel == rels[rel_no]
                  target_lang == TargetLang(entry, spec, rel)
                  pos_for_match == PosForMatch(entry, spec)
                  call == Call(scan, target_lang, rel.word, pos_for_match)
              IN  IF Falsy(rel.word) \/ Falsy(target_lang)
                  THEN UNCHANGED <<edges, count_edges, q>>
                  ELSE /\ q' = call
                       /\ IF Falsy(call.result)
                          THEN UNCHANGED <<edges, count_edges>>
                          ELSE /\ edges' = InsertEdge(edges,
                                      Edge(make_node_id(entry), call.result,
                                           spec.relation_type))
                               /\ count_edges' = count_edges + 1
    /\ rel_no' = rel_no + 1
    /\ UNCHANGED <<corpus, pc, line_no, entries, db_entries, count, scan,
                   spec_no, db_edges, count_entries>>

\* the items of the field are exhausted: next row of RELATION_SPECS
EdgesNextSpec ==
    /\ pc = "insert_edges"
    /\ spec_no \in 1..Len(RELATION_SPECS)
    /\ rel_no > Len(iter_relation_items(corpus[line_no].obj,
                                        RELATION_SPECS[spec_no].field))
    /\ spec_no' = spec_no + 1
    /\ rel_no' = 1
    /\ UNCHANGED <<corpus, pc, line_no, entries, db_entries, count, scan,
                   edges, db_edges, count_edges, count_entries, q>>

\* end of the loop body: the periodic commit
EdgesLineEnd ==
    /\ pc = "insert_edges"
    /\ spec_no = Len(RELATION_SPECS) + 1
    /\ db_edges' = IF count_entries % EdgeEntriesPerCommit = 0
                   THEN Commit(edges, db_edges) ELSE db_edges
    /\ spec_no' = 0
    /\ line_no' = line_no + 1
    /\ UNCHANGED <<corpus, pc, entries, db_entries, count, scan, rel_no,
                   edges, count_edges, count_entries, q>>

PhaseTwoEnd ==
    /\ pc = "insert_edges"
    /\ spec_no = 0
    /\ line_no > Len(corpus)
    /\ db_edges' = Commit(edges, db_edges)
    /\ pc' = "done"
    /\ UNCHANGED <<corpus, line_no, entries, db_entries, count, scan,
                   spec_no, rel_no, edges, count_edges, count_entries, q>>

----------------------------------------------------------------------------
(* A call of resolve_target_node on a table built by pass 1 *)

QueryLangs == {Null, "", "en"}
QueryWords == {Null, "", "foo", "qux"}
QueryPos == {Null, "", "noun", "verb"}

RECURSIVE InsertEntries(_, _)
InsertEntries(table, lines) ==
    IF Len(lines) = 0 THEN table
    ELSE IF SkipLine(Head(lines)) THEN InsertEntries(table, Tail(lines))
    ELSE InsertEntries(InsertOrReplace(table, normalize_entry(Head(lines).obj)),
                       Tail(lines))

ResolveCall ==
    /\ pc = "resolve"
    /\ ~q.called
    /\ \E lang_code \in QueryLangs, word \in QueryWords, current_pos \in QueryPos :
          q' = Call(scan, lang_code, word, current_pos)
    /\ UNCHANGED <<corpus, pc, line_no, entries, db_entries, count, scan,
                   spec_no, rel_no, edges, db_edges, count_edges,
                   count_entries>>

InitResolve ==
    /\ corpus \in SeqsUpTo(ResolveLines, MaxRows)
    /\ pc = "resolve"
    /\ line_no = Len(corpus) + 1
    /\ entries = InsertEntries({}, corpus)
    /\ db_entries = entries
    /\ count = Len(corpus)
    /\ scan \in ScanOrders(entries)
    /\ spec_no = 0
    /\ rel_no = 1
    /\ edges = <<>>
    /\ db_edges = <<>>
    /\ count_edges = 0
    /\ count_entries = 0
    /\ q = NoQuery

NextResolve == ResolveCall

SpecResolve == InitResolve /\ [][NextResolve]_vars

----------------------------------------------------------------------------
(* The build *)

Init ==
    /\ corpus \in SeqsUpTo(BuildLines, MaxCorpus)
    /\ pc = "insert_entries"
    /\ line_no = 1
    /\ entries = {}
    /\ db_entries = {}
    /\ count = 0
    /\ scan = <<>>
    /\ spec_no = 0
    /\ rel_no = 1
    /\ edges = <<>>
    /\ db_edges = <<>>
    /\ count_edges = 0
    /\ count_entries = 0
    /\ q = NoQuery

Next ==
    \/ InsertEntriesLine
    \/ PhaseOneEnd
    \/ EdgesLine
    \/ EdgesRel
    \/ EdgesNextSpec
    \/ EdgesLineEnd
    \/ PhaseTwoEnd

Spec == Init /\ [][Next]_vars

----------------------------------------------------------------------------
(* Properties of resolve_target_node, stated on the table and on the       *)
(* retrieval order and not on the operators above                          *)

\* positions in retrieval order of the candidates of the last call
Candidates ==
    {j \in 1..Len(scan) : scan[j].lang_code = q.lang_code /\ scan[j].word = q.word}

PosMatches == {j \in Candidates : scan[j].pos = q.current_pos}

\* candidate j precedes candidate k: smaller number, null after every
\* number, retrieval order on a tie
Precedes(j, k) ==
    LET a == scan[j].etymology_number
        b == scan[k].etymology_number
    IN  \/ a # NoNum /\ (b = NoNum \/ a < b)
        \/ a = b /\ j < k

BestPosMatch ==
    \E j \in PosMatches :
        /\ q.result = scan[j].node_id
        /\ \A k \in PosMatches \ {j} : Precedes(j, k)

\* C1 as stated: whenever current_pos is non-empty and some candidate has
\* that pos, the result is the POS-matching candidate with the smallest
\* etymology_number (null last, retrieval order on ties).
C1_AsStated ==
    (q.called /\ ~Falsy(q.current_pos) /\ PosMatches # {}) => BestPosMatch

\* C1 amended: the same for a call with non-empty lang_code and word.
C1_PosMatchSmallestEty ==
    (q.called /\ ~Falsy(q.lang_code) /\ ~Falsy(q.word)
        /\ ~Falsy(q.current_pos) /\ PosMatches # {}) => BestPosMatch

\* a verb of sense 0 comes first, then the noun without number, then the
\* noun of sense 1: the call for "noun" returns the noun of sense 1
C1_Witness ==
    /\ q.called /\ q.lang_code = "en" /\ q.word = "foo" /\ q.current_pos = "noun"
    /\ Len(scan) = 3
    /\ scan[1].pos = "verb" /\ scan[1].etymology_number = 0
    /\ scan[2].pos = "noun" /\ scan[2].etymology_number = NoNum
    /\ scan[3].pos = "noun" /\ scan[3].etymology_number = 1
    /\ q.result = scan[3].node_id

Ety0Candidates ==
    {j \in Candidates : scan[j].etymology_number \in {0, NoNum}}

FirstOf(S) == CHOOSE j \in S : \A k \in S : j <= k

\* C2: a call with non-empty lang_code and word and at least one candidate,
\* without a POS match (or without current_pos), returns the first candidate
\* in retrieval order whose etymology_number is 0 or null, else the first
\* candidate; with a candidate the result is always a candidate's id.
C2_FallbackOrder ==
    (q.called /\ ~Falsy(q.lang_code) /\ ~Falsy(q.word) /\ Candidates # {}) =>
        /\ \E j \in Candidates : q.result = scan[j].node_id
        /\ q.result # Null
        /\ (Falsy(q.current_pos) \/ PosMatches = {}) =>
              q.result = scan[FirstOf(IF Ety0Candidates # {} THEN Ety0Candidates
                                      ELSE Candidates)].node_id

\* a candidate of sense 5 comes first and an adjective without number
\* second: the call for "verb" returns the adjective
C2_Witness ==
    /\ q.called /\ q.lang_code = "en" /\ q.word = "foo" /\ q.current_pos = "verb"
    /\ Len(scan) = 2
    /\ scan[1].etymology_number = 5
    /\ scan[2].pos = "adj" /\ scan[2].etymology_number = NoNum
    /\ q.result = scan[2].node_id

\* C3: resolve returns unresolved when lang_code or word is empty or missing
\* (whatever the table holds) and when no row has that (lang_code, word);
\* the call changes neither the entries table nor the edges table.
C3_UnresolvedAndPure ==
    /\ [](q.called =>
            ((Falsy(q.lang_code) \/ Falsy(q.word)
                \/ ~\E r \in db_entries : r.lang_code = q.lang_code /\ r.word = q.word)
             => q.result = Null))
    /\ [][q' # q => /\ entries' = entries /\ db_entries' = db_entries
                    /\ edges' = edges /\ db_edges' = db_edges]_vars

\* the table holds a row with empty lang_code and word "foo", and the call
\* with that empty lang_code and that word is unresolved
C3_Witness ==
    /\ q.called /\ q.lang_code = "" /\ q.word = "foo"
    /\ \E r \in db_entries : r.lang_code = "" /\ r.word = "foo"
    /\ q.result = Null

----------------------------------------------------------------------------
(* Properties of the build *)

\* lines that carry a word and a lang_code
ValidLines ==
    {j \in 1..Len(corpus) :
        /\ corpus[j].kind = "object"
        /\ corpus[j].obj.word \notin {Absent, Null}
        /\ corpus[j].obj.lang_code \notin {Absent, Null}}

Ids(table) == {r.node_id : r \in table}

PhaseOneOver == pc \in {"insert_edges", "done"}

LastWithId(id) ==
    CHOOSE j \in ValidLines :
        /\ make_node_id(corpus[j].obj) = id
        /\ \A k \in ValidLines : make_node_id(corpus[k].obj) = id => k <= j

\* C4: after pass 1, each identity of a line with word and lang_code has
\* exactly one row, and the row is the normalized last line of that
\* identity; an attribute that line lacks is null.
C4_LastWriteWins ==
    PhaseOneOver =>
        \A j \in ValidLines :
            LET id == make_node_id(corpus[j].obj)
                last == corpus[LastWithId(id)].obj
                rows == {r \in db_entries : r.node_id = id}
            IN  /\ rows = {normalize_entry(last)}
                /\ \A r \in rows :
                      /\ r.lang = (IF last.lang = Absent THEN Null ELSE last.lang)
                      /\ r.etymology_number = last.etymology_number
                      /\ (r.derived.kind = "null") = (last.derived.kind = "absent")
                      /\ r.derived.text = ItemsOf(last.derived)
                      /\ (r.redirects.kind = "null") = (last.redirects.kind = "absent")

\* the noun "foo" with lang "English", no number and a derived list is
\* followed by the noun "foo" of sense 0 without lang: the one row left has
\* number 0, no lang and no derived list
C4_Witness ==
    /\ PhaseOneOver
    /\ Len(corpus) >= 2
    /\ corpus[1].obj.lang = "English" /\ corpus[1].obj.derived.kind = "list"
    /\ corpus[2].obj.word = "foo" /\ corpus[2].obj.pos = "noun"
    /\ corpus[2].obj.lang_code = "en" /\ corpus[2].obj.etymology_number = 0
    /\ \E r \in db_entries :
          /\ r.node_id = "en:foo:noun:0" /\ r.lang = Null
          /\ r.etymology_number = 0 /\ r.derived.kind = "null"

\* C5 as stated: a line that fails to parse or misses word or lang_code (key
\* absent or value null) adds no row and never stops the build, and the
\* lines behind it are processed.
C5_IncompleteSkipped ==
    /\ pc # "aborted"
    /\ \A r \in entries : r.word # Null /\ r.lang_code # Null
    /\ pc = "done" =>
          \A j \in ValidLines : make_node_id(corpus[j].obj) \in Ids(db_entries)

IdTuple(entry) ==
    <<entry.lang_code, entry.word, OrEmpty(Get(entry.pos)),
      IF entry.etymology_number = NoNum THEN 0 ELSE entry.etymology_number>>

\* C9 as stated: two lines with word and lang_code have the same identity
\* exactly if their (lang_code, word, pos, etymology_number) tuples are equal
\* after the defaults, so pass 1 leaves one row per distinct tuple.
C9_IdentityInjective ==
    PhaseOneOver =>
        /\ \A j, k \in ValidLines :
              (make_node_id(corpus[j].obj) = make_node_id(corpus[k].obj))
                  <=> (IdTuple(corpus[j].obj) = IdTuple(corpus[k].obj))
        /\ Cardinality(db_entries)
              = Cardinality({IdTuple(corpus[j].obj) : j \in ValidLines})

\* the step of pass 2 that handles the reference at (line_no, spec_no, rel_no)
AtReference ==
    /\ pc = "insert_edges"
    /\ spec_no \in 1..5
    /\ rel_no <= Len(iter_relation_items(corpus[line_no].obj,
                        <<"alt_of", "form_of", "redirects", "derived",
                          "descendants">>[spec_no]))

CurField == <<"alt_of", "form_of", "redirects", "derived", "descendants">>[spec_no]

CurRef == iter_relation_items(corpus[line_no].obj, CurField)[rel_no]

\* rows a reference without language of the current entry may resolve to
InheritedHits ==
    IF Falsy(corpus[line_no].obj.lang_code) \/ Falsy(CurRef.word) THEN {}
    ELSE {r \in db_entries : /\ r.lang_code = corpus[line_no].obj.lang_code
                             /\ r.word = CurRef.word}

\* C6: in pass 2 a reference without a language of its own is resolved in the
\* lang_code of the citing entry when it stands in alt_of, form_of,
\* redirects or derived, and yields no edge when it stands in descendants,
\* whatever the entries table holds.
C6_LanguageInheritance ==
    [][(AtReference /\ rel_no' = rel_no + 1 /\ Falsy(CurRef.lang_code)) =>
          IF CurField = "descendants"
          THEN edges' = edges /\ q' = q
          ELSE IF InheritedHits = {}
          THEN edges' = edges
          ELSE /\ Len(edges') = Len(edges) + 1
               /\ SubSeq(edges', 1, Len(edges)) = edges
               /\ edges'[Len(edges')].dst_id \in Ids(InheritedHits)
               /\ edges'[Len(edges')].src_id = make_node_id(corpus[line_no].obj)
               /\ q'.lang_code = corpus[line_no].obj.lang_code
      ]_vars

EdgesOfKind(kind) == {j \in 1..Len(edges) : edges[j].relation_type = kind}

\* "bar" cites "foo" without language twice in derived and once in
\* descendants, and "foo" is a row in the language of "bar": two derived
\* edges, and the one descendant edge of the reference that names "en"
C6_Witness ==
    /\ pc = "done"
    /\ \E j \in 1..Len(corpus) : corpus[j].obj.word = "bar"
    /\ \E r \in db_entries : r.lang_code = "en" /\ r.word = "foo"
    /\ Cardinality(EdgesOfKind("derived")) = 2
    /\ Cardinality(EdgesOfKind("descendant")) = 1

\* the references of pass 2: line, relation spec, position in the field
References ==
    UNION { { <<j, s, k>> :
                k \in 1..Len(iter_relation_items(corpus[j].obj,
                                                 RELATION_SPECS[s].field)) } :
            <<j, s>> \in ValidLines \X (1..5) }

RefOf(p) == iter_relation_items(corpus[p[1]].obj, RELATION_SPECS[p[2]].field)[p[3]]

EffectiveLang(p) ==
    IF ~Falsy(RefOf(p).lang_code) THEN RefOf(p).lang_code
    ELSE IF RELATION_SPECS[p[2]].fallback_entry_lang
    THEN corpus[p[1]].obj.lang_code
    ELSE Null

Resolved(p) ==
    resolve_target_node(scan, EffectiveLang(p), RefOf(p).word,
        IF RELATION_SPECS[p[2]].use_pos THEN Get(corpus[p[1]].obj.pos) ELSE Null)

ExpectedEdge(p) ==
    [src_id |-> make_node_id(corpus[p[1]].obj), dst_id |-> Resolved(p),
     relation_type |-> RELATION_SPECS[p[2]].relation_type, raw_payload |-> Null]

EdgeReferences ==
    {p \in References : /\ ~Falsy(RefOf(p).word)
                        /\ ~Falsy(EffectiveLang(p))
                        /\ Resolved(p) # Null}

\* C7: pass 2 leaves one edge per reference with non-empty word and
\* effective language that resolves, counted with multiplicity, and none for
\* a reference that does not resolve; count_edges is the number of edges.
C7_EdgeMultiset ==
    pc = "done" =>
        /\ \A e \in {ExpectedEdge(p) : p \in EdgeReferences}
                    \cup {edges[j] : j \in 1..Len(edges)} :
              Cardinality({p \in EdgeReferences : ExpectedEdge(p) = e})
                  = Cardinality({j \in 1..Len(edges) : edges[j] = e})
        /\ count_edges = Len(edges)
        /\ db_edges = edges

\* "bar" cites "foo" twice in derived and "qux", which is no row: the same
\* derived edge is in the table twice
C7_Witness ==
    /\ pc = "done"
    /\ \E j, k \in 1..Len(edges) :
          j < k /\ edges[j] = edges[k] /\ edges[j].relation_type = "derived"
    /\ \E p \in References : RefOf(p).word = "qux" /\ Resolved(p) = Null

IsPrefix(s, t) == Len(s) <= Len(t) /\ SubSeq(t, 1, Len(s)) = s

\* C8: every upsert of pass 1 happens and is committed before the first
\* query or edge insert of pass 2; in pass 2 the entries table does not
\* change; no edge is inserted before pass 1 has ended; an edge is never
\* changed or removed and no node is ever removed.
C8_PhaseOrder ==
    /\ []((q.called \/ Len(edges) > 0 \/ pc \in {"insert_edges", "done"}) =>
             /\ pc \in {"insert_edges", "done"}
             /\ db_entries = entries
             /\ \A j \in ValidLines : make_node_id(corpus[j].obj) \in Ids(db_entries))
    /\ [][/\ (entries' # entries \/ db_entries' # db_entries) =>
                 pc = "insert_entries"
          /\ (pc = "insert_entries" /\ pc' = "insert_edges") =>
                 line_no > Len(corpus)
          /\ (edges' # edges \/ q' # q) => pc = "insert_edges"
          /\ IsPrefix(edges, edges') /\ IsPrefix(db_edges, db_edges')
          /\ Ids(entries) \subseteq Ids(entries')
          /\ Ids(db_entries) \subseteq Ids(db_entries')
      ]_vars

\* pass 2 has inserted an edge into a table of two rows
C8_Witness ==
    /\ pc = "insert_edges"
    /\ Len(edges) > 0
    /\ q.called
    /\ Cardinality(db_entries) = 2

\* C10: at every point of a build from an empty store, src_id and dst_id of
\* each edge are identities of rows of the entries table, and the row of
\* dst_id has the effective language and the word of the reference.
C10_NoDanglingEdges ==
    /\ [](\A j \in 1..Len(edges) :
             /\ edges[j].src_id \in Ids(db_entries)
             /\ edges[j].dst_id \in Ids(db_entries))
    /\ [][(AtReference /\ edges' # edges) =>
             \E r \in db_entries :
                 /\ r.node_id = edges'[Len(edges')].dst_id
                 /\ r.word = CurRef.word
                 /\ r.lang_code = (IF ~Falsy(CurRef.lang_code) THEN CurRef.lang_code
                                   ELSE corpus[line_no].obj.lang_code)
      ]_vars

\* "bar" of language "en" has an edge to a row of "foo" of language "en"
C10_Witness ==
    /\ \E j \in 1..Len(edges) :
          /\ edges[j].src_id = "en:bar:verb:0"
          /\ edges[j].dst_id \in {"en:foo:noun:0", "en:foo:noun:1", "en:foo:verb:0"}
    /\ Len(corpus) >= 2

====
